---- MODULE Spec2Model ----
(***************************************************************************)
(* A model of the TicTacToe application: the game engine (engine.rs), the  *)
(* animation timers and the Grid / GridCell widgets (widget.rs).           *)
(*                                                                         *)
(* These specifications share the variables:                               *)
(*   Spec       the engine driven through its public interface             *)
(*              (TicTacToe::new, TicTacToe::set);                          *)
(*   TimerSpec  one Animate and one ReversibleAnimate driven through       *)
(*              anim_frame and reverse;                                    *)
(*   AppSpec    the widgets under the host's dispatch: an event is handled *)
(*              by Grid::event (which hands it to the cells), then the     *)
(*              update pass runs when the data changed or was requested;   *)
(*   AnimSpec   the same with Event::AnimFrame delivered to the widgets    *)
(*              that asked for it;                                         *)
(*   AppLiveSpec, AnimLiveSpec  the last two under a fair host.            *)
(*                                                                         *)
(* Option<T> is a sequence: << >> is None, <<v>> is Some(v).               *)
(* An f64 is an exact rational, a pair <<n, d>> in lowest terms.           *)
(***************************************************************************)
EXTENDS Integers, Sequences, FiniteSets, TLC

VARIABLES
    game,       \* the TicTacToe value: [cells, state, done]
    call,       \* the last call made on the engine: [op, first, idx, ret],
                \* and start, the actor the game was constructed with
    anim,       \* an Animate<(), EaseInCubic, 1000>: [time, value]
    ranim,      \* a ReversibleAnimate<bool, EaseInOutQuart, 500>:
                \* [time, value, reverse]
    hist,       \* what the two timers were fed: [total, revs, fwd, back]
    old_data,   \* the game the last update pass saw (WidgetPod's old_data)
    grid,       \* the Grid: [init_anim, done_anim, timer]
    cellw,      \* the nine GridCells: [state, hover]
    hot,        \* the cell under the pointer, if any
    timers,     \* the tokens of the timers the host has armed and not fired
    next_token, \* the token the next request_timer returns
    upd,        \* the update pass is due: the data changed, or request_update
    arms,       \* calls of request_timer since the game was constructed
    req         \* the widgets that called request_anim_frame since the last
                \* AnimFrame reached them: [grid, cells]

engineVars == <<game, call>>

timerVars == <<anim, ranim, hist>>

appVars == <<old_data, grid, cellw, hot, timers, next_token, upd, arms, req>>

vars == <<game, call, anim, ranim, hist,
          old_data, grid, cellw, hot, timers, next_token, upd, arms, req>>

(***************************************************************************)
(* engine.rs                                                               *)
(***************************************************************************)

\* enum State {X, O, N}
State == {"X", "O", "N"}

\* The length of the cells array, [State; 9].
NCells == 9

Idx == 0 .. (NCells - 1)

None == << >>

Some(v) == <<v>>

\* Option::or_else
or_else(a, b) == IF a # None THEN a ELSE b

\* An invert that is the identity.
invert_keeps(s) == s

\* An invert whose O arm yields N.
invert_to_n(s) == IF s = "X" THEN "O" ELSE "N"

\* State::invert
invert(s) == CASE s = "X" -> "O"
               [] s = "O" -> "X"
               [] OTHER   -> "N"

\* A TicTacToe::new that keeps the N it is given instead of drawing a mark.
new_keeps_first(first, rand) ==
    [cells |-> [i \in Idx |-> "N"], state |-> first, done |-> None]

\* TicTacToe::new: `rand` is the value rand::random() returns.
new(first, rand) ==
    LET f == IF first = "N" /\ rand THEN "X"
             ELSE IF first = "N" THEN "O"
             ELSE first
    IN  [cells |-> [i \in Idx |-> "N"], state |-> f, done |-> None]

\* <[State; 9]>::get
cells_get(g, i) == IF i \in Idx THEN Some(g.cells[i]) ELSE None

\* TicTacToe::get
get(g, i) == IF i \in Idx THEN g.cells[i] ELSE "N"

\* The comparison shared by calc_row, calc_col and calc_dia: each `?` returns
\* None when the index is out of range.
three(g, a, b, c, orien) ==
    LET s1 == cells_get(g, a)
        s2 == cells_get(g, b)
        s3 == cells_get(g, c)
    IN  IF s1 = None \/ s2 = None \/ s3 = None THEN None
        ELSE IF s1 = s2 /\ s2 = s3 THEN Some([state |-> s1[1], orien |-> orien])
        ELSE None

row_of(idx) == idx \div 3

col_of(idx) == idx % 3

calc_row(g, row) == three(g, row * 3, row * 3 + 1, row * 3 + 2, row)

calc_col(g, col) == three(g, col, 3 + col, 6 + col, col + 3)

calc_dia(g, right) ==
    IF right THEN three(g, 2, 4, 6, 7) ELSE three(g, 0, 4, 8, 6)

\* The match on idx with the two diagonals of the centre tried in the other
\* order.
calc_diagonals_anti_first(g, idx) ==
    IF idx = 4 THEN or_else(calc_dia(g, TRUE), calc_dia(g, FALSE))
    ELSE IF idx % 4 = 0 THEN calc_dia(g, FALSE)
    ELSE IF idx # 8 /\ idx # 0 /\ idx % 2 = 0 THEN calc_dia(g, TRUE)
    ELSE None

\* The match on idx without its arm for the corners 2 and 6.
calc_diagonals_no_corner(g, idx) ==
    IF idx = 4 THEN or_else(calc_dia(g, FALSE), calc_dia(g, TRUE))
    ELSE IF idx % 4 = 0 THEN calc_dia(g, FALSE)
    ELSE None

\* The match on idx that ends TicTacToe::calc.
calc_diagonals(g, idx) ==
    IF idx = 4 THEN or_else(calc_dia(g, FALSE), calc_dia(g, TRUE))
    ELSE IF idx % 4 = 0 THEN calc_dia(g, FALSE)
    ELSE IF idx # 8 /\ idx # 0 /\ idx % 2 = 0 THEN calc_dia(g, TRUE)
    ELSE None

\* A calc that never looks at the column.
calc_no_col(g, idx) ==
    or_else(calc_row(g, row_of(idx)), calc_diagonals(g, idx))

\* A calc that tries the column before the row.
calc_col_first(g, idx) ==
    or_else(calc_col(g, col_of(idx)),
            or_else(calc_row(g, row_of(idx)), calc_diagonals(g, idx)))

\* TicTacToe::calc
calc(g, idx) ==
    or_else(calc_row(g, row_of(idx)),
            or_else(calc_col(g, col_of(idx)), calc_diagonals(g, idx)))

\* A set that matches Some(x) instead of Some(x @ N): it writes to an occupied
\* cell.
set_overwrites(g, idx) ==
    IF g.state # "N" /\ idx \in Idx
    THEN LET placed == [g EXCEPT !.cells[idx] = g.state]
             hit    == calc(placed, idx)
         IN  IF hit # None
             THEN [game |-> [placed EXCEPT !.done = Some(hit[1].orien),
                                           !.state = hit[1].state],
                   ret  |-> TRUE]
             ELSE [game |-> [placed EXCEPT !.state = invert(placed.state)],
                   ret  |-> TRUE]
    ELSE [game |-> g, ret |-> FALSE]

\* A set that hands the turn over on a winning move too.
set_flips_on_win(g, idx) ==
    IF g.state # "N" /\ idx \in Idx /\ g.cells[idx] = "N"
    THEN LET placed == [g EXCEPT !.cells[idx] = g.state]
             hit    == calc(placed, idx)
         IN  IF hit # None
             THEN [game |-> [placed EXCEPT !.done = Some(hit[1].orien),
                                           !.state = invert(hit[1].state)],
                   ret  |-> TRUE]
             ELSE [game |-> [placed EXCEPT !.state = invert(placed.state)],
                   ret  |-> TRUE]
    ELSE [game |-> g, ret |-> FALSE]

\* TicTacToe::set: the game after the call and the value returned.
set(g, idx) ==
    IF g.state # "N" /\ idx \in Idx /\ g.cells[idx] = "N"
    THEN LET placed == [g EXCEPT !.cells[idx] = g.state]
             hit    == calc(placed, idx)
         IN  IF hit # None
             THEN [game |-> [placed EXCEPT !.done = Some(hit[1].orien),
                                           !.state = hit[1].state],
                   ret  |-> TRUE]
             ELSE [game |-> [placed EXCEPT !.state = invert(placed.state)],
                   ret  |-> TRUE]
    ELSE [game |-> g, ret |-> FALSE]

\* A draw that only looks at the cells.
draw_ignores_done(g) == \A i \in Idx : g.cells[i] # "N"

\* TicTacToe::draw
draw(g) == g.done = None /\ \A i \in Idx : g.cells[i] # "N"

\* TicTacToe::done
done(g) == g.done


(***************************************************************************)
(* widget.rs: Animate and ReversibleAnimate.                               *)
(*                                                                         *)
(* A rational is a pair <<n, d>> in lowest terms with d > 0.               *)
(***************************************************************************)

RECURSIVE GCD(_, _)
GCD(a, b) == IF b = 0 THEN a ELSE GCD(b, a % b)

Abs(n) == IF n < 0 THEN -n ELSE n

Rat(n, d) == LET g == GCD(Abs(n), d) IN <<n \div g, d \div g>>

Zero == Rat(0, 1)

One == Rat(1, 1)

RAdd(a, b) == Rat(a[1] * b[2] + b[1] * a[2], a[2] * b[2])

RSub(a, b) == Rat(a[1] * b[2] - b[1] * a[2], a[2] * b[2])

RMul(a, b) == Rat(a[1] * b[1], a[2] * b[2])

RLe(a, b) == a[1] * b[2] <= b[1] * a[2]

RLt(a, b) == a[1] * b[2] < b[1] * a[2]

\* The literal 1e-6 as its reciprocal.
Mega == 1000000

\* t as f64 * 1e-6 / D as f64
delta(t, D) == Rat(t, Mega * D)

\* EasingFunction::y of keyframe's EaseInCubic and EaseInOutQuart.
y(E, x) ==
    IF E = "EaseInCubic" THEN RMul(x, RMul(x, x))
    ELSE LET half == Rat(1, 2)
             two  == Rat(2, 1)
             p4(v) == RMul(RMul(v, v), RMul(v, v))
         IN  IF RLt(x, half) THEN RMul(Rat(8, 1), p4(x))
             ELSE RSub(One, RMul(p4(RSub(two, RMul(two, x))), half))

\* keyframe::ease(function, from, to, time): the time is clamped to [0, 1],
\* and the result is from + (to - from) * y(time).
ease(E, from, to, time) ==
    LET t == IF RLt(time, Zero) THEN Zero
             ELSE IF RLt(One, time) THEN One
             ELSE time
    IN  RAdd(from, RMul(RSub(to, from), y(E, t)))

\* Animate::new / Animate::default
animate_new == [time |-> Zero, value |-> Zero]

\* An Animate::anim_frame that eases before it adds the tick.
animate_frame_stale(a, t, E, D) ==
    [time  |-> RAdd(a.time, delta(t, D)),
     value |-> ease(E, Zero, One, a.time)]

\* Animate::anim_frame
animate_frame(a, t, E, D) ==
    LET time == RAdd(a.time, delta(t, D))
    IN  [time |-> time, value |-> ease(E, Zero, One, time)]

\* Animate::starting
animate_starting(a) == RLe(a.value, Zero) /\ a.time = Zero

\* Animate::finished
animate_finished(a) == RLe(One, a.value)

\* ReversibleAnimate::new / ReversibleAnimate::default
reversible_new == [time |-> Zero, value |-> Zero, reverse |-> FALSE]

\* ReversibleAnimate::is_reverse
is_reverse(a) == a.reverse

\* ReversibleAnimate::reverse
reverse(a) == [a EXCEPT !.reverse = ~a.reverse]

\* A ReversibleAnimate::anim_frame whose reverse branch eases on the time
\* instead of on 1 - time.
reversible_frame_no_complement(a, t, E, D) ==
    IF a.reverse
    THEN LET time == RSub(a.time, delta(t, D))
         IN  [a EXCEPT !.time = time, !.value = ease(E, One, Zero, time)]
    ELSE LET time == RAdd(a.time, delta(t, D))
         IN  [a EXCEPT !.time = time, !.value = ease(E, Zero, One, time)]

\* ReversibleAnimate::anim_frame
reversible_frame(a, t, E, D) ==
    IF a.reverse
    THEN LET time == RSub(a.time, delta(t, D))
         IN  [a EXCEPT !.time = time,
                       !.value = ease(E, One, Zero, RSub(One, time))]
    ELSE LET time == RAdd(a.time, delta(t, D))
         IN  [a EXCEPT !.time = time, !.value = ease(E, Zero, One, time)]

\* ReversibleAnimate::starting
reversible_starting(a) ==
    IF a.reverse THEN RLe(One, a.value) /\ RLe(One, a.time)
    ELSE RLe(a.value, Zero) /\ RLe(a.time, Zero)

\* A ReversibleAnimate::finished with the bodies of its two branches swapped.
reversible_finished_swapped(a) ==
    IF a.reverse THEN RLe(One, a.value) /\ RLe(One, a.time)
    ELSE RLe(a.value, Zero) /\ RLe(a.time, Zero)

\* ReversibleAnimate::finished
reversible_finished(a) ==
    IF a.reverse THEN RLe(a.value, Zero) /\ RLe(a.time, Zero)
    ELSE RLe(One, a.value) /\ RLe(One, a.time)

(***************************************************************************)
(* widget.rs: GridCell and Grid.  The payload of a timer (data: the mark a  *)
(* cell draws, the line the grid strikes through) is written by the        *)
(* handlers and read by paint alone; it is left out.                       *)
(***************************************************************************)

\* TimerToken::INVALID
Invalid == 0

\* The const generic D of init_anim (the Animate of TimerSpec) and of a
\* cell's state (the ReversibleAnimate of TimerSpec).
AnimD == 1000

RanimD == 500

\* GridCell::new: both timers are built and reversed at once.
gridcell_new ==
    [state |-> reverse(reversible_new),
     hover |-> reverse(reversible_new)]

\* Grid::default, but for the cells.
grid_default ==
    [init_anim |-> animate_new,
     done_anim |-> reverse(reversible_new),
     timer     |-> Invalid]

\* Grid::lifecycle: whether request_anim_frame is called.
grid_lifecycle(gr) == animate_starting(gr.init_anim)

\* The match on (ctx.is_hot(), self.hover.is_reverse()) that ends
\* GridCell::event.
cell_hover(c, g, is_hot) ==
    LET settled == ~is_reverse(c.state) \/ done(g) # None
    IN  IF is_hot /\ ~is_reverse(c.hover) /\ settled
        THEN [c EXCEPT !.hover = reverse(c.hover)]
        ELSE IF is_hot /\ is_reverse(c.hover) /\ settled
        THEN c
        ELSE IF is_hot = is_reverse(c.hover)
        THEN [c EXCEPT !.hover = reverse(c.hover)]
        ELSE c

\* A guard of the MouseDown arm that lets every click through.
mouse_down_unguarded(g) == TRUE

\* The guard of the MouseDown arm of GridCell::event.
mouse_down_guard(g) == done(g) = None

\* GridCell::event on a left MouseDown: the cell, the game and whether
\* request_update was called.  The N arm of the match on state is never
\* taken: set returns false when the actor is N.
cell_mouse_down(c, idx, g, is_hot) ==
    LET r   == set(g, idx)
        hit == mouse_down_guard(g) /\ r.ret
        c1  == IF hit
               THEN [c EXCEPT !.state = reverse(c.state)]
               ELSE c
        g1  == IF mouse_down_guard(g) THEN r.game ELSE g
    IN  [cell |-> cell_hover(c1, g1, is_hot), game |-> g1, request |-> hit]

\* GridCell::event on a MouseMove.
cell_mouse_move(c, g, is_hot) == cell_hover(c, g, is_hot)

\* A GridCell::update that leaves the mark timer of an emptied cell alone.
cell_update_keeps(c, idx, old, g) == c

\* GridCell::update
cell_update(c, idx, old, g) ==
    IF get(g, idx) = "N" /\ get(old, idx) # "N"
    THEN [c EXCEPT !.state = reverse(c.state)]
    ELSE c

\* The match on data.game.done() that opens Grid::update.
grid_update_done(gr, old, g) ==
    IF done(g) # None /\ done(g) # done(old)
    THEN [gr EXCEPT !.done_anim = reverse(gr.done_anim)]
    ELSE IF done(g) = None /\ done(g) # done(old)
    THEN [gr EXCEPT !.done_anim = reverse(gr.done_anim)]
    ELSE gr

\* A Grid::update that arms the timer in every update pass.
update_arms_always(g) == TRUE

\* The condition under which Grid::update arms the timer.
update_arms(g) == done(g) # None \/ draw(g)

\* The const generic D of done_anim and of a cell's hover.
DoneD == 500

HoverD == 100

\* `if !timer.finished() { timer.anim_frame(t); ctx.request_anim_frame(); }`
\* on an Animate: the timer it leaves and whether the request was made.
animate_arm(a, t, E, D) ==
    IF ~animate_finished(a)
    THEN [timer |-> animate_frame(a, t, E, D), request |-> TRUE]
    ELSE [timer |-> a, request |-> FALSE]

\* The same on a ReversibleAnimate, without the test of finished().
reversible_arm_unguarded(a, t, E, D) ==
    [timer |-> reversible_frame(a, t, E, D), request |-> TRUE]

\* The same on a ReversibleAnimate.
reversible_arm(a, t, E, D) ==
    IF ~reversible_finished(a)
    THEN [timer |-> reversible_frame(a, t, E, D), request |-> TRUE]
    ELSE [timer |-> a, request |-> FALSE]

\* A cell that asks for no frame when it turns its hover timer.
cell_request_anim_state_only(c, c1) == c1.state.reverse # c.state.reverse

\* Whether a handler that took the cell from c to c1 called
\* request_anim_frame by the side of a reverse(): each call of reverse() on
\* state or hover is followed by one.
cell_request_anim(c, c1) ==
    \/ c1.state.reverse # c.state.reverse
    \/ c1.hover.reverse # c.hover.reverse

\* The same for Grid::update and done_anim.
grid_request_anim(gr, gr1) == gr1.done_anim.reverse # gr.done_anim.reverse

\* The AnimFrame arm of Grid::event.
grid_anim_frame(gr, t) ==
    LET i == animate_arm(gr.init_anim, t, "EaseInCubic", AnimD)
        d == reversible_arm(gr.done_anim, t, "EaseInCubic", DoneD)
    IN  [grid    |-> [gr EXCEPT !.init_anim = i.timer, !.done_anim = d.timer],
         request |-> i.request \/ d.request]

\* GridCell::event on an AnimFrame: the arm, then the match on hover.
cell_anim_frame(c, g, t, is_hot) ==
    LET s  == reversible_arm(c.state, t, "EaseInOutQuart", RanimD)
        h  == reversible_arm(c.hover, t, "EaseInOutQuart", HoverD)
        c1 == [state |-> s.timer, hover |-> h.timer]
        c2 == cell_hover(c1, g, is_hot)
    IN  [cell    |-> c2,
         request |-> s.request \/ h.request \/ cell_request_anim(c1, c2)]

\* A Timer arm of Grid::event that takes every timer for its own.
grid_timer_any(gr, g, id, fresh) == [game |-> fresh, request |-> TRUE]

\* The Timer arm of Grid::event, Event::Timer(id) if self.timer == id: the
\* game it leaves, fresh being the game TicTacToe::new(State::N) returns,
\* and whether request_update was called.
grid_timer(gr, g, id, fresh) ==
    IF gr.timer = id
    THEN [game |-> fresh, request |-> TRUE]
    ELSE [game |-> g, request |-> FALSE]

(***************************************************************************)
(* The engine under its public interface.                                  *)
(***************************************************************************)

\* The largest index handed to set; the cells are 0 .. 8.
MaxIdx == 9

NoCall ==
    [op |-> "none", first |-> "N", idx |-> 0, ret |-> FALSE, start |-> "N"]

NoHist == [total |-> 0, revs |-> 0, fwd |-> 0, back |-> 0]

\* The timers as constructed, and nothing fed to them.
TimersFresh ==
    /\ anim = animate_new
    /\ ranim = reversible_new
    /\ hist = NoHist

\* The widgets as constructed and added to the window (Grid::lifecycle has
\* run), and a host that has delivered no event.
AppFresh ==
    /\ grid = grid_default
    /\ cellw = [i \in Idx |-> gridcell_new]
    /\ hot = None
    /\ timers = {}
    /\ next_token = Invalid + 1
    /\ upd = FALSE
    /\ arms = 0
    /\ req = [grid  |-> grid_lifecycle(grid_default),
              cells |-> [i \in Idx |-> FALSE]]

Init ==
    /\ \E first \in State, rand \in BOOLEAN :
          /\ game = new(first, rand)
          /\ call = [op |-> "new", first |-> first, idx |-> 0, ret |-> TRUE,
                     start |-> new(first, rand).state]
    /\ TimersFresh
    /\ old_data = new("X", TRUE)
    /\ AppFresh

\* A call of TicTacToe::new, replacing the game.
New ==
    \E first \in State, rand \in BOOLEAN :
       /\ game' = new(first, rand)
       /\ call' = [op |-> "new", first |-> first, idx |-> 0, ret |-> TRUE,
                    start |-> new(first, rand).state]
       /\ UNCHANGED <<timerVars, appVars>>

\* A call of TicTacToe::set(idx).
Set ==
    \E idx \in 0 .. MaxIdx :
       LET r == set(game, idx)
       IN  /\ game' = r.game
           /\ call' = [op |-> "set", first |-> "N", idx |-> idx,
                        ret |-> r.ret, start |-> call.start]
           /\ UNCHANGED <<timerVars, appVars>>

Next == New \/ Set

Spec == Init /\ [][Next]_vars

(***************************************************************************)
(* The timers under their interface.  A tick is a multiple of TickQuantum, *)
(* so that a run of ticks can add up to a duration exactly; ticks are fed  *)
(* as the widgets feed them, while the timer is not finished().            *)
(***************************************************************************)

\* Tick quanta in the shorter duration.
Steps == 4

\* The largest tick, in quanta.
MaxTick == 3

\* The most calls of reverse() in a run.
MaxReverse == 2

TickQuantum == (Mega * RanimD) \div Steps

Ticks == {k * TickQuantum : k \in 1 .. MaxTick}

TimerInit ==
    /\ game = new("X", TRUE)
    /\ call = NoCall
    /\ TimersFresh
    /\ old_data = game
    /\ AppFresh

\* Animate::anim_frame(t) on the forward timer.
AnimFrame ==
    \E t \in Ticks :
       /\ ~animate_finished(anim)
       /\ anim' = animate_frame(anim, t, "EaseInCubic", AnimD)
       /\ hist' = [hist EXCEPT !.total = @ + t]
       /\ UNCHANGED <<game, call, ranim, appVars>>

\* ReversibleAnimate::anim_frame(t) on the reversible timer.
ReversibleFrame ==
    \E t \in Ticks :
       /\ ~reversible_finished(ranim)
       /\ ranim' = reversible_frame(ranim, t, "EaseInOutQuart", RanimD)
       /\ hist' = [hist EXCEPT
                      !.fwd  = IF hist.revs = 0 THEN @ + t ELSE @,
                      !.back = IF hist.revs = 1 THEN @ + t ELSE @]
       /\ UNCHANGED <<game, call, anim, appVars>>

\* ReversibleAnimate::reverse() on the reversible timer.
Reverse ==
    /\ hist.revs < MaxReverse
    /\ ranim' = reverse(ranim)
    /\ hist' = [hist EXCEPT !.revs = @ + 1]
    /\ UNCHANGED <<game, call, anim, appVars>>

TimerNext == AnimFrame \/ ReversibleFrame \/ Reverse

TimerSpec == TimerInit /\ [][TimerNext]_vars

(***************************************************************************)
(* The application under the host.  The host delivers one event at a time  *)
(* to Grid::event; when the handlers changed the data or called            *)
(* request_update, the update pass (Grid::update, which runs the cells'    *)
(* update) follows before the next event.  A mouse event reaches the cell  *)
(* under the pointer and the cell the pointer left; a Timer event reaches  *)
(* the Grid, which armed it, and none of the cells.  Of each timer the     *)
(* direction is followed here; anim_frame, which moves only time and       *)
(* value, is followed in TimerSpec and in AnimSpec.                        *)
(***************************************************************************)

\* The most timers the host is asked for in a run: no click is delivered
\* once they are used up.
MaxTimers == 2

AppInit ==
    /\ \E rand \in BOOLEAN : game = new("N", rand)
    /\ call = NoCall
    /\ TimersFresh
    /\ old_data = game
    /\ AppFresh

\* Event::MouseDown, left button, on the cell under the pointer, one of the
\* cells in C, while the host has armed fewer than cap timers.
MouseDownOn(C, cap) ==
    \E i \in C :
       /\ ~upd
       /\ hot = Some(i)
       /\ next_token <= cap
       /\ LET r == cell_mouse_down(cellw[i], i, game, TRUE)
          IN  /\ game' = r.game
              /\ cellw' = [cellw EXCEPT ![i] = r.cell]
              /\ upd' = (r.request \/ r.game # old_data)
       /\ UNCHANGED <<call, timerVars, old_data, grid, hot, timers,
                      next_token, arms>>

\* Event::MouseDown with the pointer free to be on any cell.
MouseDown == MouseDownOn(Idx, MaxTimers) /\ UNCHANGED req

\* Event::MouseMove: the pointer moves to h (a cell in C, or off the grid).
MouseMoveTo(C) ==
    \E h \in {None} \cup {Some(i) : i \in C} :
       /\ ~upd
       /\ h # None \/ hot # None
       /\ hot' = h
       /\ cellw' = [i \in Idx |->
                       IF h = Some(i) THEN cell_mouse_move(cellw[i], game, TRUE)
                       ELSE IF hot = Some(i)
                            THEN cell_mouse_move(cellw[i], game, FALSE)
                       ELSE cellw[i]]
       /\ UNCHANGED <<game, call, timerVars, old_data, grid, timers,
                      next_token, upd, arms>>

\* Event::MouseMove with the pointer free to move to any cell.
MouseMove == MouseMoveTo(Idx) /\ UNCHANGED req

\* Event::Timer(id): an armed timer fires.
TimerEvent ==
    \E id \in timers, rand \in BOOLEAN :
       /\ ~upd
       /\ timers' = timers \ {id}
       /\ LET r == grid_timer(grid, game, id, new("N", rand))
          IN  /\ game' = r.game
              /\ arms' = IF r.request THEN 0 ELSE arms
              /\ upd' = (r.request \/ r.game # old_data)
       /\ UNCHANGED <<call, timerVars, old_data, grid, cellw, hot, next_token>>

TimerFired == TimerEvent /\ UNCHANGED req

\* The update pass: Grid::update and, from it, every GridCell::update.
UpdatePass ==
    /\ upd
    /\ LET gr == grid_update_done(grid, old_data, game)
       IN  IF update_arms(game)
           THEN /\ grid' = [gr EXCEPT !.timer = next_token]
                /\ timers' = timers \cup {next_token}
                /\ next_token' = next_token + 1
                /\ arms' = arms + 1
           ELSE /\ grid' = gr
                /\ UNCHANGED <<timers, next_token, arms>>
    /\ cellw' = [i \in Idx |-> cell_update(cellw[i], i, old_data, game)]
    /\ old_data' = game
    /\ upd' = FALSE
    /\ UNCHANGED <<game, call, timerVars, hot>>

Update == UpdatePass /\ UNCHANGED req

AppNext == MouseDown \/ MouseMove \/ TimerFired \/ Update

AppSpec == AppInit /\ [][AppNext]_vars

(***************************************************************************)
(* The application with its animation frames.  A widget that called        *)
(* request_anim_frame is sent the next Event::AnimFrame(t): the Grid, at   *)
(* the root, when it or any cell asked, a cell when the cell itself asked. *)
(* The pointer is kept to the first PointerCells cells and one game is     *)
(* played and restarted; rand::random() returns true; a frame lasts the    *)
(* longest of the durations, that of init_anim.                            *)
(***************************************************************************)

\* The pointer stays on the cells 0 .. PointerCells - 1.
PointerCells == 5

\* The timers the host is asked for before clicks stop.
AnimTimers == 1

FrameTicks == {Mega * AnimD}

\* The handlers' calls of request_anim_frame in this step.
Requested ==
    req' = [grid  |-> req.grid \/ grid_request_anim(grid, grid'),
            cells |-> [i \in Idx |->
                         req.cells[i] \/ cell_request_anim(cellw[i], cellw'[i])]]

AnimMouseDown == MouseDownOn(0 .. (PointerCells - 1), AnimTimers) /\ Requested

AnimMouseMove == MouseMoveTo(0 .. (PointerCells - 1)) /\ Requested

AnimTimerFired == TimerEvent /\ Requested

AnimUpdate == UpdatePass /\ Requested

\* Event::AnimFrame(t), to the Grid and to the cells that asked for it.
Frame ==
    \E t \in FrameTicks :
       /\ ~upd
       /\ req.grid \/ \E i \in Idx : req.cells[i]
       /\ \E gf \in {grid_anim_frame(grid, t)},
             cf \in {[i \in Idx |->
                       IF req.cells[i]
                       THEN cell_anim_frame(cellw[i], game, t, hot = Some(i))
                       ELSE [cell |-> cellw[i], request |-> FALSE]]} :
              /\ grid' = gf.grid
              /\ cellw' = [i \in Idx |-> cf[i].cell]
              /\ req' = [grid  |-> gf.request,
                         cells |-> [i \in Idx |-> cf[i].request]]
       /\ UNCHANGED <<game, call, timerVars, old_data, hot, timers,
                      next_token, upd, arms>>

AnimNext ==
    AnimMouseDown \/ AnimMouseMove \/ AnimTimerFired \/ AnimUpdate \/ Frame

AnimInit ==
    /\ game = new("N", TRUE)
    /\ call = NoCall
    /\ TimersFresh
    /\ old_data = game
    /\ AppFresh

AnimSpec == AnimInit /\ [][AnimNext]_vars

\* A frame is due: a widget has asked for one, and no update pass is due.
FrameDue == ~upd /\ (req.grid \/ \E i \in Idx : req.cells[i])

\* This step is an AnimFrame: no other event moves the elapsed time of a
\* timer or uses up a widget's request for a frame.
FrameStep ==
    \/ grid'.init_anim.time # grid.init_anim.time
    \/ grid'.done_anim.time # grid.done_anim.time
    \/ (req.grid /\ ~req'.grid)
    \/ \E i \in Idx : \/ cellw'[i].state.time # cellw[i].state.time
                       \/ cellw'[i].hover.time # cellw[i].hover.time
                       \/ (req.cells[i] /\ ~req'.cells[i])

\* The host runs the update pass that is due and delivers the frame that
\* was asked for: weak fairness of AnimUpdate and of Frame, the latter
\* written out with FrameDue, which is ENABLED Frame.
AnimLiveSpec ==
    /\ AnimSpec
    /\ WF_vars(AnimUpdate)
    /\ <>[]FrameDue => []<><<FrameStep>>_vars

\* The host runs the update pass that is due before it does anything else,
\* and a timer it armed fires when its second has passed.
AppLiveSpec == AppSpec /\ WF_vars(Update) /\ WF_vars(TimerFired)

(***************************************************************************)
(* Properties of the engine.  The lines are stated here apart from calc:   *)
(* line id L names the cells LineCells(L).                                 *)
(***************************************************************************)

LineIds == 0 .. 7

LineCells(L) ==
    CASE L = 0 -> {0, 1, 2}
      [] L = 1 -> {3, 4, 5}
      [] L = 2 -> {6, 7, 8}
      [] L = 3 -> {0, 3, 6}
      [] L = 4 -> {1, 4, 7}
      [] L = 5 -> {2, 5, 8}
      [] L = 6 -> {0, 4, 8}
      [] L = 7 -> {2, 4, 6}

\* The three cells of line L hold the same mark, X or O.
LineFull(g, L) ==
    \E m \in {"X", "O"} : \A j \in LineCells(L) : g.cells[j] = m

HasLine(g) == \E L \in LineIds : LineFull(g, L)

Full(g) == \A i \in Idx : g.cells[i] # "N"

\* A board from the marks given cell by cell.
Board(marks) == [i \in Idx |-> marks[i + 1]]

\* This step is a call of set.
SetStep == call'.op = "set"

\* This step is a call of set that returned true.
SetOk == SetStep /\ call'.ret

\* The move of this step fills the last cell of line L: the other two cells
\* already hold the mover's mark.
Completes(L) ==
    /\ call'.idx \in LineCells(L)
    /\ \A j \in LineCells(L) \ {call'.idx} : game.cells[j] = game.state

\* C1: once the Outcome is present, set(index) returns false for every index
\* and leaves the board, the current actor and the Outcome unchanged.
C1_DecidedGameRejectsMoves ==
    [][(game.done # None /\ SetStep) => (~call'.ret /\ game' = game)]_vars

\* C2 as claimed: in a game with no Outcome, a successful set that fills the
\* last cell of a line, the other two holding the mover's mark, leaves the
\* Outcome with that line's id, for every such line.
C2_EveryCompletedLineIsReported ==
    [][(game.done = None /\ SetOk) =>
          \A L \in LineIds : Completes(L) => game'.done = Some(L)]_vars

\* C2 as amended: such a move leaves an Outcome whose line id is that line's
\* id, unless the same move also completes a line tried earlier (a smaller
\* id: rows, then columns, then 6, then 7), whose id is then reported.  The
\* two scenarios A0,B1,A3,B4,A6 and A0,B1,A4,B2,A8 end with ids 3 and 6.
C2_CompletedLineIsReported ==
    [][(game.done = None /\ SetOk) =>
          /\ \A L \in LineIds : Completes(L) =>
                /\ game'.done # None
                /\ \/ game'.done = Some(L)
                   \/ /\ game'.done[1] \in 0 .. (L - 1)
                      /\ Completes(game'.done[1])
          /\ game'.cells = Board(<<"X","O","N", "X","O","N", "X","N","N">>)
                => game'.done = Some(3)
          /\ game'.cells = Board(<<"X","O","O", "N","X","N", "N","N","X">>)
                => game'.done = Some(6)]_vars

\* A0, B1, A4, B2, A8 has been played: the main diagonal is reported.
C2_Witness ==
    /\ call.op = "set" /\ call.ret /\ call.idx = 8
    /\ game.cells = Board(<<"X","O","O", "N","X","N", "N","N","X">>)
    /\ game.done = Some(6)

\* C3: after any sequence of set calls on a fresh game the Outcome is present
\* exactly when one of the 8 lines holds three equal marks.
C3_OutcomeIffLine == (game.done # None) <=> HasLine(game)

\* The middle column was completed by its bottom cell.
C3_Witness ==
    /\ call.op = "set" /\ call.ret /\ call.idx = 7
    /\ game.done = Some(4)
    /\ LineFull(game, 4)

\* C4: set(index) with an index outside 0 .. 8 or on a cell that is not
\* Empty returns false and changes nothing, and no call of set changes the
\* mark of a cell that is not Empty.
C4_OccupiedOrOutOfRangeRejected ==
    [][SetStep =>
          /\ (call'.idx \notin Idx \/ game.cells[call'.idx] # "N")
                => (~call'.ret /\ game' = game)
          /\ \A i \in Idx : game.cells[i] # "N"
                => game'.cells[i] = game.cells[i]]_vars

\* A move on an occupied cell of an undecided game was refused.
C4_Witness ==
    /\ call.op = "set" /\ ~call.ret /\ call.idx \in Idx
    /\ game.cells[call.idx] # "N"
    /\ game.done = None

\* C5: draw() is true exactly when all 9 cells are non-Empty and the Outcome
\* is absent; a full board with a line has an Outcome and is no draw; the
\* full board X O X / X O O / O X X is a draw with no Outcome.
C5_DrawIffFullAndUndecided ==
    /\ draw(game) <=> (Full(game) /\ game.done = None)
    /\ (Full(game) /\ HasLine(game)) => (game.done # None /\ ~draw(game))
    /\ game.cells = Board(<<"X","O","X", "X","O","O", "O","X","X">>)
          => (draw(game) /\ game.done = None)

\* The board X O X / X O O / O X X has been reached, and it is a draw.
C5_Witness ==
    /\ game.cells = Board(<<"X","O","X", "X","O","O", "O","X","X">>)
    /\ call.op = "set" /\ call.ret
    /\ draw(game)

\* The move of this step is a successful move on the centre that leaves both
\* diagonals full and neither the middle row nor the middle column.
CentreCompletesBothDiagonals ==
    /\ SetOk /\ call'.idx = 4
    /\ LineFull(game', 6) /\ LineFull(game', 7)
    /\ ~LineFull(game', 1) /\ ~LineFull(game', 4)

\* C6 as claimed: a move on the centre that completes both diagonals reports
\* the anti-diagonal, line id 7.
C6_CentreReportsAntiDiagonal ==
    [][CentreCompletesBothDiagonals => game'.done = Some(7)]_vars

\* C6 as amended: the main diagonal is tried first, so such a move reports
\* line id 6.
C6_CentreReportsMainDiagonal ==
    [][CentreCompletesBothDiagonals => game'.done = Some(6)]_vars

\* X0, O1, X2, O3, X8, O5, X6, O7, X4 has been played.
C6_Witness ==
    /\ call.op = "set" /\ call.ret /\ call.idx = 4
    /\ game.cells = Board(<<"X","O","X", "O","X","O", "X","O","X">>)
    /\ game.done = Some(6)

\* C7: new(first) returns a game with 9 Empty cells and no Outcome, whose
\* current actor is first when first is X or O, and is X or O when it is N.
C7_NewGame ==
    call.op = "new" =>
       /\ \A i \in Idx : game.cells[i] = "N"
       /\ game.done = None
       /\ call.first \in {"X", "O"} => game.state = call.first
       /\ game.state \in {"X", "O"}

\* new(N) drew O; new(X) is seen by the same formula.
C7_Witness ==
    /\ call.op = "new" /\ call.first = "N"
    /\ game.state = "O"
    /\ game.done = None

\* C12: whenever the Outcome is present its line id L is in 0 .. 7 and the
\* three cells of line L hold the same mark, X or O; and the move that sets
\* the Outcome leaves the current actor unchanged: state() is the mark just
\* placed, the mark of line L.
C12_OutcomeNamesAFullLine ==
    [][/\ game'.done # None =>
             /\ game'.done[1] \in LineIds
             /\ LineFull(game', game'.done[1])
       /\ (SetOk /\ game'.done # game.done) =>
             /\ game'.state = game.state
             /\ game'.cells[call'.idx] = game'.state
             /\ \A j \in LineCells(game'.done[1]) :
                   game'.cells[j] = game'.state]_vars

\* O has just won on the anti-diagonal and is still the current actor.
C12_Witness ==
    /\ call.op = "set" /\ call.ret /\ call.idx = 6
    /\ game.done = Some(7)
    /\ game.state = "O"
    /\ \A j \in LineCells(7) : game.cells[j] = "O"

\* The order in which calc tries the lines: rows, columns, diagonals.
Rank(L) == IF L \in 0 .. 2 THEN 0 ELSE IF L \in 3 .. 5 THEN 1 ELSE 2

\* The lines through the cell of this step's move that are full after it.
LinesMade ==
    {L \in LineIds : call'.idx \in LineCells(L) /\ LineFull(game', L)}

\* C13: win-check precedence.  When one successful move completes more than
\* one line, the line id reported is that of one of them, and none of them
\* comes earlier in the order row, column, diagonal; a move at index 0 that
\* completes row 0 and column 0 reports line id 0.
C13_WinCheckPrecedence ==
    [][(SetOk /\ Cardinality(LinesMade) >= 2) =>
          /\ game'.done # None
          /\ game'.done[1] \in LinesMade
          /\ \A L \in LinesMade : Rank(game'.done[1]) <= Rank(L)
          /\ (call'.idx = 0 /\ {0, 3} \subseteq LinesMade)
                => game'.done = Some(0)]_vars

\* X has completed row 0 and column 0 with one move at index 0.
C13_Witness ==
    /\ call.op = "set" /\ call.ret /\ call.idx = 0
    /\ game.cells = Board(<<"X","X","X", "X","O","O", "X","O","O">>)
    /\ game.done = Some(0)

\* The number of cells that hold mark m.
Count(g, m) == Cardinality({i \in Idx : g.cells[i] = m})

\* C14: turn alternation.  A successful move that does not set the Outcome
\* hands the turn to the other mark; and while the Outcome is absent, the
\* starting actor has as many marks as the other actor or one more, and is
\* the current actor exactly when they have as many.
C14_TurnAlternation ==
    /\ [](game.done = None =>
            LET s == call.start
                o == invert(call.start)
                d == Count(game, s) - Count(game, o)
            IN  /\ d \in {0, 1}
                /\ (game.state = s) <=> (d = 0))
    /\ [][(SetOk /\ game'.done = game.done) =>
             /\ game'.state \in {"X", "O"}
             /\ game'.state # game.state]_vars

\* O started; after five moves with no Outcome it is X's turn.
C14_Witness ==
    /\ call.op = "set" /\ call.ret /\ call.start = "O"
    /\ game.done = None
    /\ Count(game, "O") = 3 /\ Count(game, "X") = 2
    /\ game.state = "X"

\* C15: in every state of a game, after construction and any sequence of
\* set calls, decided or not, the current actor is X or O and never N.
C15_ActorIsNeverN == game.state \in {"X", "O"}

\* A move was made on a decided game, and a full board reached: the actor is
\* still a mark.
C15_Witness ==
    /\ call.op = "set" /\ call.ret
    /\ game.done # None
    /\ Full(game)
    /\ Count(game, "X") = 6
    /\ game.state = "O"

(***************************************************************************)
(* Properties of the timers.                                               *)
(***************************************************************************)

\* The reversible timer ran forward from fresh for a total e with
\* 0 < e <= 1, was reversed once, and was then fed ticks adding up to e.
RoundTrip ==
    /\ hist.revs = 1
    /\ 0 < hist.fwd /\ hist.fwd <= Mega * RanimD
    /\ hist.back = hist.fwd

\* C8 as claimed: after the round trip the output is 0.0 and starting() is
\* true.
C8_RoundTripIsStarting ==
    RoundTrip => (ranim.value = Zero /\ reversible_starting(ranim))

\* C8 as amended: after the round trip the elapsed time and the output are
\* back at 0.0 and finished() is true; starting() is false, the timer
\* running in reverse.
C8_RoundTripIsFinished ==
    RoundTrip =>
       /\ ranim.time = Zero
       /\ ranim.value = Zero
       /\ reversible_finished(ranim)
       /\ ~reversible_starting(ranim)

\* A round trip that turned back in mid-flight, before the forward end.
C8_Witness ==
    /\ RoundTrip
    /\ hist.fwd < Mega * RanimD
    /\ ranim.reverse

\* C9: a fresh forward timer of duration D fed ticks adding up to exactly D
\* reports finished() and output 1.0, and fed less than D it is not
\* finished().
C9_ForwardCompletion ==
    /\ hist.total = Mega * AnimD
          => (animate_finished(anim) /\ anim.value = One)
    /\ hist.total < Mega * AnimD => ~animate_finished(anim)

\* The forward timer was fed exactly its duration, in several ticks.
C9_Witness ==
    /\ hist.total = Mega * AnimD
    /\ animate_finished(anim)
    /\ anim.time = One

\* The largest step of the elapsed time: the largest tick over the duration.
MaxDelta == delta(MaxTick * TickQuantum, RanimD)

\* C16 as claimed: the elapsed time of the reversible timer stays within
\* [0, 1], ticks being applied only while it is not finished().
C16_ElapsedWithinUnit ==
    RLe(Zero, ranim.time) /\ RLe(ranim.time, One)

\* C16 as amended: the output stays within [0, 1]; the elapsed time is not
\* clamped and leaves [0, 1] by less than one tick: it stays strictly
\* between -d and 1 + d, d being the largest step of the elapsed time.
C16_ElapsedOvershootsByLessThanATick ==
    /\ RLe(Zero, ranim.value) /\ RLe(ranim.value, One)
    /\ RLt(RSub(Zero, MaxDelta), ranim.time)
    /\ RLt(ranim.time, RAdd(One, MaxDelta))

\* The timer ran forward past 1, was reversed, and has run back past 0.
C16_Witness ==
    /\ hist.revs = 1 /\ ranim.reverse
    /\ hist.fwd > Mega * RanimD
    /\ RLt(ranim.time, Zero)
    /\ reversible_finished(ranim)

(***************************************************************************)
(* Properties of the application.                                          *)
(***************************************************************************)

\* The game is over: an Outcome is present, or it is a draw.
Terminal(g) == g.done # None \/ draw(g)

\* C10: the restart timer is armed exactly once per finished game.  No timer
\* is armed or pending while the game is in progress; in the turn that ends
\* the game the update pass arms one timer; from then until it fires, that
\* timer is the only one pending and none is armed again.
C10_ArmedOncePerFinishedGame ==
    /\ arms <= 1
    /\ ~Terminal(game) => (arms = 0 /\ timers = {})
    /\ (Terminal(game) /\ upd) => (arms = 0 /\ timers = {})
    /\ (Terminal(game) /\ ~upd) => (arms = 1 /\ timers = {grid.timer})

\* The second game of a run has ended in a draw and its timer is armed, the
\* pointer having moved since.
C10_Witness ==
    /\ draw(game) /\ ~upd
    /\ arms = 1 /\ grid.timer = Invalid + 2
    /\ timers = {grid.timer}
    /\ hot = None

\* The game is as constructed: an empty board, no Outcome, X or O to move.
Fresh(g) ==
    /\ \A i \in Idx : g.cells[i] = "N"
    /\ g.done = None
    /\ g.state \in {"X", "O"}

\* The identities a Timer event can carry.
Tokens == Invalid .. (MaxTimers + 1)

\* C11: automatic restart.  Whenever the game is terminal (an Outcome or a
\* draw), the update pass being run and armed timers being fired, the game
\* is eventually a fresh one (empty board, no Outcome, actor X or O); and
\* the Timer arm leaves the game as it is for every identity other than the
\* one the Grid holds.
C11_AutomaticRestart ==
    /\ [](\A id \in Tokens \ {grid.timer}, rand \in BOOLEAN :
            grid_timer(grid, game, id, new("N", rand)).game = game)
    /\ Terminal(game) ~> Fresh(game)

\* The second game of a run was replaced when its timer fired, and the
\* update pass has run; the first game's timer is no longer the Grid's.
C11_Witness ==
    /\ Fresh(game) /\ ~upd
    /\ old_data = game
    /\ grid.timer = Invalid + 2
    /\ timers = {}

\* C19: once the game has an Outcome, no click on any cell, and no pointer
\* move or update pass, changes the game (board, actor, Outcome) or any
\* cell's mark timer; the game stays as decided until the restart timer
\* fires, which replaces it by a fresh one.
C19_DecidedGameIgnoresClicks ==
    [][game.done # None =>
          \/ /\ game' = game
             /\ \A i \in Idx : cellw'[i].state = cellw[i].state
          \/ /\ Fresh(game')
             /\ grid.timer \in timers
             /\ timers' = timers \ {grid.timer}]_vars

\* The first game is decided, its timer is armed, and the pointer is on an
\* empty cell, where a click can be delivered.
C19_Witness ==
    /\ game.done # None /\ ~upd
    /\ timers = {grid.timer}
    /\ next_token <= MaxTimers
    /\ \E i \in Idx : /\ hot = Some(i)
                       /\ game.cells[i] = "N"
                       /\ cellw[i].state = gridcell_new.state

\* C20: a game in progress is never reset.  A step that replaces the game by
\* a fresh one, or that empties a cell, starts in a state where the game is
\* terminal: its Outcome is present or draw() is true.
C20_GameInProgressIsNeverReset ==
    [][(\/ game' # game /\ Fresh(game')
        \/ \E i \in Idx : game.cells[i] # "N" /\ game'.cells[i] = "N")
          => Terminal(game)]_vars

\* The timer of a drawn game has fired: the game is fresh, and the update
\* pass, still due, will be shown the drawn game as the old one.
C20_Witness ==
    /\ Fresh(game) /\ upd
    /\ draw(old_data)
    /\ timers = {}
    /\ grid.timer # Invalid

\* The mark timer of cell i, and the win-line timer of the Grid, run forward.
MarkForward(i) == ~is_reverse(cellw[i].state)

LineForward == ~is_reverse(grid.done_anim)

\* C21: at the end of every dispatch turn (an event and the update pass it
\* caused, so none is due), the mark timer of each cell runs forward exactly
\* when that cell of the game is not empty, and the win-line timer of the
\* Grid runs forward exactly when the game has an Outcome.
C21_DirectionFollowsGame ==
    ~upd => /\ \A i \in Idx : MarkForward(i) <=> get(game, i) # "N"
            /\ LineForward <=> done(game) # None

\* A second game, one move in: the first game ended, its timer fired, and
\* the update pass of the restart turned the marks and the win line back.
C21_Witness ==
    /\ ~upd /\ old_data = game
    /\ grid.timer # Invalid /\ timers = {}
    /\ done(game) = None
    /\ \E i \in Idx : /\ get(game, i) # "N" /\ MarkForward(i)
                       /\ \A j \in Idx \ {i} : get(game, j) = "N"
    /\ ~LineForward

(***************************************************************************)
(* Properties of the animation frames.                                     *)
(***************************************************************************)

\* The timer a1 has the elapsed time and the output of a.
Frozen(a, a1) == a1.time = a.time /\ a1.value = a.value

\* C17: a timer that is finished (in its current direction, when it is
\* reversible) is frozen.  An AnimFrame delivered to its widget leaves its
\* elapsed time and its output unchanged; and when every timer of the widget
\* is finished and the handler turns none of them, the widget has not asked
\* for another frame.
C17_FinishedTimerIsFrozen ==
    [][FrameStep =>
          /\ animate_finished(grid.init_anim)
                => Frozen(grid.init_anim, grid'.init_anim)
          /\ reversible_finished(grid.done_anim)
                => grid'.done_anim = grid.done_anim
          /\ (/\ animate_finished(grid.init_anim)
              /\ reversible_finished(grid.done_anim)) => ~req'.grid
          /\ \A i \in Idx :
                /\ reversible_finished(cellw[i].state)
                      => cellw'[i].state = cellw[i].state
                /\ reversible_finished(cellw[i].hover)
                      => Frozen(cellw[i].hover, cellw'[i].hover)
                /\ (/\ reversible_finished(cellw[i].state)
                    /\ reversible_finished(cellw[i].hover)
                    /\ cellw'[i].hover.reverse = cellw[i].hover.reverse)
                      => ~req'.cells[i]]_vars

\* The reveal of the grid and the mark of cell 0 have run to their ends, and
\* a frame has since reached the Grid and the cell: nobody asks for another.
C17_Witness ==
    /\ animate_finished(grid.init_anim)
    /\ ~cellw[0].state.reverse /\ reversible_finished(cellw[0].state)
    /\ cellw[0].state.time # Zero
    /\ ~req.grid
    /\ \A i \in Idx : ~req.cells[i]

\* The timers of the Grid, or of cell i, that are not finished().
GridPending ==
    ~animate_finished(grid.init_anim) \/ ~reversible_finished(grid.done_anim)

CellPending(i) ==
    \/ ~reversible_finished(cellw[i].state)
    \/ ~reversible_finished(cellw[i].hover)

\* This step turns a timer round.
Toggle ==
    \/ grid'.done_anim.reverse # grid.done_anim.reverse
    \/ \E i \in Idx : \/ cellw'[i].state.reverse # cellw[i].state.reverse
                       \/ cellw'[i].hover.reverse # cellw[i].hover.reverse

====
